---- MODULE Spec2Model ----
(***************************************************************************)
(* Model of the roomio chat service: the socket.io connection handler of   *)
(* src/src/websockets/index.ts (join-meeting, update-media-state,          *)
(* send-message, disconnect), the authentication middleware of             *)
(* src/src/middleware/socketAuth.ts and the Firestore message DAO of       *)
(* src/src/dao/MessageDAO.ts.                                              *)
(*                                                                         *)
(* Node runs every handler to its next await without interruption, so one  *)
(* action is one synchronous stretch of a handler: from the event (or the  *)
(* resolution of the awaited promise) to the next await or to the end.     *)
(***************************************************************************)
EXTENDS Integers, Sequences, FiniteSets, Bags, TLC

\* ------------------------------------------------------------------ bounds

\* Events handled (handler invocations) in one run.
MaxTasks == 3
\* Documents the messages collections hold in one run of Spec.
MaxMsgs == 1

Conns == {"c1", "c2"}
Users == {"u1", "u2"}
Rooms == {"r1", "r2"}

\* Sockets are named in the order in which they connect.
Earlier(c) == IF c = "c2" THEN {"c1"} ELSE {}

\* JavaScript null, and the values a client can put in its handshake.
Null == "<null>"
Tokens == {"none", "bad", "tok_u1"}
\* handshake.query.uid: absent or a literal 'undefined' / 'null', or a user id.
\* The users are interchangeable, so the first socket to connect asks for u1.
QueryUids(c) ==
    {"", "undefined", "null"} \cup (IF c = "c1" THEN {"u1"} ELSE Users)

\* What db.collection("users").doc(uid).get() can produce.
ProfileOutcomes == {"error", "missing", "doc"}
DocName == "Ann"
DocPhoto == "db.png"
ClientPhoto == "cli.png"
Texts == {"hi"}

\* The meeting the richer payloads and the chat messages are tried on; the
\* other meeting is joined by its bare id and has its media state updated.
MainRooms == {"r1"}

\* The join-meeting payloads: a bare meeting id, or an object that may omit
\* photoURL, isMuted and isVideoOff ("given" lists the media fields present).
JoinPayloads ==
    {[type |-> "string", meetingId |-> r, photoURL |-> Null, given |-> {},
      isMuted |-> FALSE, isVideoOff |-> FALSE] : r \in Rooms}
    \cup
    {[type |-> "object", meetingId |-> r, photoURL |-> Null, given |-> {},
      isMuted |-> FALSE, isVideoOff |-> FALSE] : r \in MainRooms}
    \cup
    {[type |-> "object", meetingId |-> r, photoURL |-> ClientPhoto,
      given |-> {"isMuted", "isVideoOff"},
      isMuted |-> FALSE, isVideoOff |-> FALSE] : r \in MainRooms}

\* The update-media-state payloads {meetingId, isMuted, isVideoOff}
MediaStates == {<<"r1", TRUE, FALSE>>, <<"r1", FALSE, TRUE>>, <<"r2", FALSE, TRUE>>}

\* ------------------------------------------------------------------ state

VARIABLES
    status,        \* per connection: "new" | "rejected" | "connected" | "closed"
    socketUid,     \* socket.uid, set by the middleware from the verified token
    uid,           \* const uid = socket.handshake.query.uid
    rooms,         \* socket.io rooms the socket is subscribed to (socket.join)
    participants,  \* the module-level registry: meetingId -> participant list
    keys,          \* Object.keys(participants): the ids in insertion order
    messages,      \* Firestore meetings/{id}/messages: the documents of each
    now,           \* the server clock (new Date()), as of its last reading
    tasks,         \* the handlers in flight (a bag), each with its position and locals
                   \* (and, for a send, the sockets its broadcast has reached)
    nEvents,       \* events handled so far
    joined,        \* per connection: the meetings it has sent join-meeting for
    completed,     \* per connection: the meetings its join handler has finished for
    step,          \* the step taken last: handler, connection, meeting, error,
                   \* and what it was given (handshake, outcome of the profile read)
    sent           \* what the last step emitted, in order, and to which sockets

vars == <<status, socketUid, uid, rooms, participants, keys, messages, now,
          tasks, nEvents, joined, completed, step, sent>>

\* ------------------------------------------------------------------ helpers

\* participants[meetingId].filter(p => p.userId !== uid)
RECURSIVE WithoutUser(_, _)
WithoutUser(list, u) ==
    IF list = <<>> THEN <<>>
    ELSE IF Head(list).userId # u
         THEN <<Head(list)>> \o WithoutUser(Tail(list), u)
         ELSE WithoutUser(Tail(list), u)

UserIds(list) == {list[i].userId : i \in 1..Len(list)}

Count(list, u) == Cardinality({i \in 1..Len(list) : list[i].userId = u})

\* participants[meetingId], read as [] where the key is missing
ListOf(r) == IF r \in DOMAIN participants THEN participants[r] ELSE <<>>

\* Variant: a middleware that lets every handshake pass
TokenValidAny(tok) == TRUE

\* auth.verifyIdToken(token): the decoded uid, or a throw
TokenValid(tok) == tok = "tok_u1"
DecodedUid(tok) == "u1"

\* !uid || uid === 'undefined' || uid === 'null'
InvalidUid(q) == q = "" \/ q = "undefined" \/ q = "null"

\* Variant: no default, the name of a failed or empty lookup is null
GetUserDataNoDefault(outcome) ==
    IF outcome = "doc" THEN [userName |-> DocName, photoURL |-> DocPhoto]
    ELSE [userName |-> Null, photoURL |-> Null]

\* getUserData(): never throws, defaults on a failed or empty lookup
GetUserData(outcome) ==
    IF outcome = "doc" THEN [userName |-> DocName, photoURL |-> DocPhoto]
    ELSE [userName |-> "User", photoURL |-> Null]

\* clientPhotoURL || userData.photoURL
PhotoOf(clientPhotoURL, userData) ==
    IF clientPhotoURL # Null /\ clientPhotoURL # ""
    THEN clientPhotoURL ELSE userData.photoURL

\* Variant: data.isMuted || true, which turns a given false into true
MediaDefaultFalsy(data, f) ==
    IF data.type = "object" /\ f \in data.given /\ data[f] THEN data[f] ELSE TRUE

\* typeof data === 'object' && data.isMuted !== undefined ? data.isMuted : true
MediaDefault(data, f) ==
    IF data.type = "object" /\ f \in data.given THEN data[f] ELSE TRUE

\* io.to(meetingId): the sockets subscribed to the room
IoTo(r) == {c \in Conns : r \in rooms[c]}
\* Variant: io.to(meetingId) for user-joined, as the handler once had it
BroadcastToAll(c, r) == IoTo(r)

\* socket.broadcast.to(meetingId): the room without the socket itself
BroadcastTo(c, r) == IoTo(r) \ {c}
\* Variant: the history is sent to nobody
SocketNone(c) == {}

\* socket.emit: the socket itself; a closed socket drops the packet
SocketOnly(c) == IF status[c] = "connected" THEN {c} ELSE {}

Emit(ev, r, to, payload) ==
    [ev |-> ev, room |-> r, to |-> to, payload |-> payload]

NewTask(c, kind, pc, r, photo, m, v) ==
    [conn |-> c, kind |-> kind, pc |-> pc, meetingId |-> r,
     photoURL |-> photo, isMuted |-> m, isVideoOff |-> v,
     message |-> Null, userName |-> Null, time |-> 0, heard |-> {}]

\* An event starts a handler; a handler moves on; a handler has returned, or
\* its promise was rejected
Start(t) == tasks (+) SetToBag({t})
Finish(t) == tasks (-) SetToBag({t})
Move(t, t2) == (tasks (-) SetToBag({t})) (+) SetToBag({t2})
Pending == BagToSet(tasks)

Step(op, c, r, err, had) ==
    [op |-> op, conn |-> c, room |-> r, err |-> err, had |-> had,
     token |-> Null, query |-> Null, profile |-> Null]

\* .orderBy("time"): by time, documents of equal time by document id
RECURSIVE InsertDoc(_, _)
InsertDoc(sorted, d) ==
    IF sorted = <<>> THEN <<d>>
    ELSE IF d.time < Head(sorted).time
            \/ (d.time = Head(sorted).time /\ d.id < Head(sorted).id)
         THEN <<d>> \o sorted
         ELSE <<Head(sorted)>> \o InsertDoc(Tail(sorted), d)

\* Variant: the documents in the order of their names, the time ignored
RECURSIVE InsertDocByName(_, _)
InsertDocByName(sorted, d) ==
    IF sorted = <<>> THEN <<d>>
    ELSE IF d.id < Head(sorted).id
         THEN <<d>> \o sorted
         ELSE <<Head(sorted)>> \o InsertDocByName(Tail(sorted), d)

RECURSIVE OrderByName(_)
OrderByName(docs) ==
    IF docs = {} THEN <<>>
    ELSE LET d == CHOOSE x \in docs : TRUE
         IN InsertDocByName(OrderByName(docs \ {d}), d)

RECURSIVE OrderByTime(_)
OrderByTime(docs) ==
    IF docs = {} THEN <<>>
    ELSE LET d == CHOOSE x \in docs : TRUE
         IN InsertDoc(OrderByTime(docs \ {d}), d)

\* MessageDAO.getMessages(meetingId): {id: doc.id, ...doc.data()}, ordered
GetMessages(r) == OrderByTime(messages[r])

\* ------------------------------------------------------------------ initial state

Init ==
    /\ status = [c \in Conns |-> "new"]
    /\ socketUid = [c \in Conns |-> Null]
    /\ uid = [c \in Conns |-> Null]
    /\ rooms = [c \in Conns |-> {}]
    /\ participants = << >>
    /\ keys = << >>
    /\ messages = [r \in Rooms |-> {}]
    /\ now = 0
    /\ tasks = EmptyBag
    /\ nEvents = 0
    /\ joined = [c \in Conns |-> {}]
    /\ completed = [c \in Conns |-> {}]
    /\ step = Step("start", Null, Null, "none", FALSE)
    /\ sent = << >>

\* ------------------------------------------------------------------ connection

\* io.use(socketAutenticate) and then io.on("connection", ...)
Connect(c) ==
    /\ status[c] = "new"
    /\ \A d \in Earlier(c) : status[d] # "new"
    /\ \E tok \in Tokens, q \in QueryUids(c) :
         IF ~TokenValid(tok)
         THEN /\ status' = [status EXCEPT ![c] = "rejected"]
              /\ step' = [Step("Connect", c, Null, "auth", FALSE)
                             EXCEPT !.token = tok]
              /\ UNCHANGED <<socketUid, uid>>
         ELSE /\ socketUid' = [socketUid EXCEPT ![c] = DecodedUid(tok)]
              /\ uid' = [uid EXCEPT ![c] = IF InvalidUid(q) THEN Null ELSE q]
              /\ status' = [status EXCEPT ![c] =
                                IF InvalidUid(q) THEN "closed" ELSE "connected"]
              /\ step' = [Step("Connect", c, Null,
                               IF InvalidUid(q) THEN "uid" ELSE "none", FALSE)
                             EXCEPT !.token = tok, !.query = q]
    /\ sent' = << >>
    /\ UNCHANGED <<rooms, participants, keys, messages, now, tasks, nEvents, joined, completed>>

\* ------------------------------------------------------------------ join-meeting

\* The participant a join pushes
Participant(u, userName, photoURL, m, v) ==
    [userId |-> u, userName |-> userName, photoURL |-> photoURL,
     isMuted |-> m, isVideoOff |-> v]

\* Variant: the push without the filter before it
JoinListNoDedup(list, u, entry) == Append(list, entry)

\* Variant: a user already listed is left as listed (dedup-and-skip)
JoinListSkip(list, u, entry) ==
    IF u \in UserIds(list) THEN list ELSE Append(list, entry)

\* Variant: the new entry is put first
JoinListFront(list, u, entry) == <<entry>> \o WithoutUser(list, u)

\* Variant: the filter alone, the push left for later
JoinListRemoveOnly(list, u, entry) == WithoutUser(list, u)

\* The registry step of a join: drop the user's entries, push the new one
JoinList(list, u, entry) ==
    IF u # "" /\ u # Null
    THEN Append(WithoutUser(list, u), entry)
    ELSE WithoutUser(list, u)

\* The event arrives: the payload is read, the socket subscribes to the room
\* and the history is requested (the first await).
JoinMeeting(c, data) ==
    /\ status[c] = "connected"
    /\ nEvents < MaxTasks
    /\ nEvents' = nEvents + 1
    /\ rooms' = [rooms EXCEPT ![c] = @ \cup {data.meetingId}]
    /\ joined' = [joined EXCEPT ![c] = @ \cup {data.meetingId}]
    /\ tasks' = Start(NewTask(c, "join", "history", data.meetingId,
                            IF data.type = "object" THEN data.photoURL ELSE Null,
                            MediaDefault(data, "isMuted"),
                            MediaDefault(data, "isVideoOff")))
    /\ step' = Step("JoinMeeting", c, data.meetingId, "none", FALSE)
    /\ sent' = << >>
    /\ UNCHANGED <<status, socketUid, uid, participants, keys, messages, now,
                   completed>>

\* MessageDAO.getMessages settles. A rejection is caught nowhere: the handler
\* ends there. Otherwise the history goes to the socket and the profile is
\* requested (the second await).
JoinHistory(t) ==
    /\ t.kind = "join" /\ t.pc = "history"
    /\ \/ /\ tasks' = Finish(t)
          /\ step' = Step("JoinHistory", t.conn, t.meetingId, "history", FALSE)
          /\ sent' = << >>
       \/ /\ tasks' = Move(t, [t EXCEPT !.pc = "profile"])
          /\ step' = Step("JoinHistory", t.conn, t.meetingId, "none", FALSE)
          /\ sent' = << Emit("chat-history", t.meetingId, SocketOnly(t.conn),
                             GetMessages(t.meetingId)) >>
    /\ UNCHANGED <<status, socketUid, uid, rooms, participants, keys, messages,
                   now, nEvents, joined, completed>>

\* getUserData settles: the registry is updated and the room is told.
JoinProfile(t) ==
    /\ t.kind = "join" /\ t.pc = "profile"
    /\ \E outcome \in ProfileOutcomes :
         LET r == t.meetingId
             u == uid[t.conn]
             userData == GetUserData(outcome)
             photoURL == PhotoOf(t.photoURL, userData)
             entry == Participant(u, userData.userName, photoURL,
                                  t.isMuted, t.isVideoOff)
             list == JoinList(ListOf(r), u, entry)
         IN /\ participants' = [x \in DOMAIN participants \cup {r} |->
                                   IF x = r THEN list ELSE participants[x]]
            /\ keys' = IF r \in DOMAIN participants THEN keys ELSE Append(keys, r)
            /\ sent' = << Emit("user-joined", r, BroadcastTo(t.conn, r),
                               [userId |-> u, userName |-> userData.userName,
                                photoURL |-> photoURL]),
                          Emit("participants", r, IoTo(r), list) >>
            /\ step' = [Step("JoinProfile", t.conn, r, "none",
                             u \in UserIds(ListOf(r)))
                           EXCEPT !.profile = outcome]
    /\ tasks' = Finish(t)
    /\ completed' = [completed EXCEPT ![t.conn] = @ \cup {t.meetingId}]
    /\ UNCHANGED <<status, socketUid, uid, rooms, messages, now, nEvents, joined>>

\* ------------------------------------------------------------------ update-media-state

\* Variant: the entry is moved to the end and rebuilt with default name and photo
SetMediaRebuild(list, u, m, v) ==
    Append(WithoutUser(list, u), Participant(u, "User", Null, m, v))

\* participants[meetingId].find(p => p.userId === uid), then the two writes
RECURSIVE SetMedia(_, _, _, _)
SetMedia(list, u, m, v) ==
    IF list = <<>> THEN <<>>
    ELSE IF Head(list).userId = u
         THEN <<[Head(list) EXCEPT !.isMuted = m, !.isVideoOff = v]>> \o Tail(list)
         ELSE <<Head(list)>> \o SetMedia(Tail(list), u, m, v)

\* Variant: any meeting of the registry passes, the user listed or not
FindParticipantAny(r, u) == r \in DOMAIN participants

\* if (!participants[meetingId]) return; ... find(p => p.userId === uid)
FindParticipant(r, u) ==
    r \in DOMAIN participants /\ u \in UserIds(participants[r])

UpdateMediaState(c, r, m, v) ==
    /\ status[c] = "connected"
    /\ nEvents < MaxTasks
    /\ nEvents' = nEvents + 1
    /\ IF FindParticipant(r, uid[c])
       THEN /\ participants' = [participants EXCEPT
                                  ![r] = SetMedia(@, uid[c], m, v)]
            /\ sent' = << Emit("media-state-updated", r, IoTo(r),
                               [userId |-> uid[c], isMuted |-> m,
                                isVideoOff |-> v]) >>
            /\ step' = Step("UpdateMediaState", c, r, "none", TRUE)
       ELSE /\ sent' = << >>
            /\ step' = Step("UpdateMediaState", c, r, "none", FALSE)
            /\ UNCHANGED participants
    /\ UNCHANGED <<status, socketUid, uid, rooms, keys, messages, now, tasks, joined, completed>>

\* ------------------------------------------------------------------ send-message

\* Documents stored and documents on their way
MessageCount ==
    BagCardinality(tasks) - Cardinality({t \in Pending : t.kind # "send"})
    + Cardinality(UNION {messages[r] : r \in Rooms})

\* The document ids Firestore may give the next document: as many names as
\* there are documents stored or on their way
DocIds == 1..MessageCount

\* Variant: socket.to(meetingId), which leaves the sender out
NewMessageToOthers(c, r) == IoTo(r) \ {c}

\* io.to(meetingId) of the new-message broadcast
NewMessageTo(c, r) == IoTo(r)

\* The event arrives and the sender's profile is requested (the first await).
SendMessage(c, r, text) ==
    /\ status[c] = "connected"
    /\ nEvents < MaxTasks
    /\ nEvents' = nEvents + 1
    /\ tasks' = Start([NewTask(c, "send", "profile", r, Null, FALSE, FALSE)
                          EXCEPT !.message = text])
    /\ step' = Step("SendMessage", c, r, "none", FALSE)
    /\ sent' = << >>
    /\ UNCHANGED <<status, socketUid, uid, rooms, participants, keys, messages,
                   now, joined, completed>>

\* The profile read settles. A rejection is caught nowhere: the handler ends
\* there. Otherwise the message is stamped, broadcast and handed to the DAO
\* (the second await).
SendProfile(t) ==
    /\ t.kind = "send" /\ t.pc = "profile"
    /\ \E outcome \in ProfileOutcomes, date \in {now, now + 1} :
         LET userName == IF outcome = "doc" THEN DocName ELSE "User"
             payload == [meetingId |-> t.meetingId, senderId |-> uid[t.conn],
                         userName |-> userName, message |-> t.message,
                         time |-> date]
         IN IF outcome = "error"
            THEN /\ tasks' = Finish(t)
                 /\ step' = Step("SendProfile", t.conn, t.meetingId, "profile", FALSE)
                 /\ sent' = << >>
                 /\ UNCHANGED now
            ELSE /\ now' = date
                 /\ sent' = << Emit("new-message", t.meetingId,
                                    NewMessageTo(t.conn, t.meetingId), payload) >>
                 /\ tasks' = Move(t, [t EXCEPT !.pc = "persist",
                                                 !.userName = userName,
                                                 !.time = date,
                                                 !.heard = NewMessageTo(t.conn,
                                                                        t.meetingId)])
                 /\ step' = Step("SendProfile", t.conn, t.meetingId, "none", FALSE)
    /\ UNCHANGED <<status, socketUid, uid, rooms, participants, keys, messages,
                   nEvents, joined, completed>>

\* MessageDAO.createMessage settles: the document is stored under a fresh
\* document id, or the add is rejected and the rejection is caught nowhere.
SendPersist(t) ==
    /\ t.kind = "send" /\ t.pc = "persist"
    /\ LET r == t.meetingId
           used == {d.id : d \in UNION {messages[x] : x \in Rooms}}
       IN \/ \E id \in DocIds \ used :
               /\ messages' = [messages EXCEPT ![r] = @ \cup
                                 {[id |-> id, meetingId |-> r,
                                   senderId |-> uid[t.conn], userName |-> t.userName,
                                   message |-> t.message, time |-> t.time]}]
               /\ step' = Step("SendPersist", t.conn, r, "none", FALSE)
          \/ /\ step' = Step("SendPersist", t.conn, r, "append", FALSE)
             /\ UNCHANGED messages
    /\ tasks' = Finish(t)
    /\ sent' = << >>
    /\ UNCHANGED <<status, socketUid, uid, rooms, participants, keys, now,
                   nEvents, joined, completed>>

\* ------------------------------------------------------------------ disconnect

\* Variant: the broadcast without the count test
RemovedAlways(list, u) == TRUE

\* beforeCount !== afterCount
Removed(list, u) == Len(list) # Len(WithoutUser(list, u))

\* Variant: the roster is sent as it was before the filter
RECURSIVE LeaveEmitsStale(_, _, _)
LeaveEmitsStale(ks, u, userName) ==
    IF ks = <<>> THEN <<>>
    ELSE LET r == Head(ks)
         IN (IF Removed(participants[r], u)
             THEN << Emit("user-left", r, IoTo(r),
                          [userId |-> u, userName |-> userName]),
                     Emit("participants", r, IoTo(r), participants[r]) >>
             ELSE <<>>)
            \o LeaveEmitsStale(Tail(ks), u, userName)

\* The loop over Object.keys(participants): what it emits, room by room
RECURSIVE LeaveEmits(_, _, _)
LeaveEmits(ks, u, userName) ==
    IF ks = <<>> THEN <<>>
    ELSE LET r == Head(ks)
         IN (IF Removed(participants[r], u)
             THEN << Emit("user-left", r, IoTo(r),
                          [userId |-> u, userName |-> userName]),
                     Emit("participants", r, IoTo(r),
                          WithoutUser(participants[r], u)) >>
             ELSE <<>>)
            \o LeaveEmits(Tail(ks), u, userName)

\* The transport closes the socket: it leaves its rooms, then the disconnect
\* handler starts and requests the profile (its only await).
Disconnect(c) ==
    /\ status[c] = "connected"
    /\ nEvents < MaxTasks
    /\ nEvents' = nEvents + 1
    /\ status' = [status EXCEPT ![c] = "closed"]
    /\ rooms' = [rooms EXCEPT ![c] = {}]
    /\ tasks' = Start(NewTask(c, "disconnect", "profile", Null, Null, FALSE, FALSE))
    /\ step' = Step("Disconnect", c, Null, "none", FALSE)
    /\ sent' = << >>
    /\ UNCHANGED <<socketUid, uid, participants, keys, messages, now, joined, completed>>

\* getUserData settles: the user is removed from every meeting of the registry.
DisconnectProfile(t) ==
    /\ t.kind = "disconnect" /\ t.pc = "profile"
    /\ \E outcome \in ProfileOutcomes :
         LET u == uid[t.conn]
             userName == GetUserData(outcome).userName
         IN /\ participants' = [r \in DOMAIN participants |->
                                   WithoutUser(participants[r], u)]
            /\ sent' = LeaveEmits(keys, u, userName)
            /\ step' = Step("DisconnectProfile", t.conn, Null, "none",
                            \E r \in DOMAIN participants : u \in UserIds(participants[r]))
    /\ tasks' = Finish(t)
    /\ UNCHANGED <<status, socketUid, uid, rooms, keys, messages, now, nEvents, joined, completed>>

\* ------------------------------------------------------------------ specification

Next ==
    \/ \E c \in Conns : Connect(c)
    \/ \E c \in Conns, data \in JoinPayloads : JoinMeeting(c, data)
    \/ \E t \in Pending : JoinHistory(t)
    \/ \E t \in Pending : JoinProfile(t)
    \/ \E c \in Conns, ms \in MediaStates :
         UpdateMediaState(c, ms[1], ms[2], ms[3])
    \/ \E c \in Conns, r \in MainRooms, text \in Texts :
         MessageCount < MaxMsgs /\ SendMessage(c, r, text)
    \/ \E t \in Pending : SendProfile(t)
    \/ \E t \in Pending : SendPersist(t)
    \/ \E c \in Conns : Disconnect(c)
    \/ \E t \in Pending : DisconnectProfile(t)

Spec == Init /\ [][Next]_vars

\* ------------------------------------------------------------------ a stalled collaborator

\* The socket whose Firestore reads may never settle
Stalled == "c1"

\* A handler in flight takes its next step: the promise it awaits has settled
TaskStep(t) ==
    \/ JoinHistory(t)
    \/ JoinProfile(t)
    \/ SendProfile(t)
    \/ SendPersist(t)
    \/ DisconnectProfile(t)

\* The reads of the other sockets do settle, whatever those of Stalled do
OtherStep == \E t \in Pending : t.conn # Stalled /\ TaskStep(t)

SpecStall == Init /\ [][Next]_vars /\ WF_vars(OtherStep)

\* ------------------------------------------------------------------ the message history

\* MessageDAO.getMessages(meetingId) called on its own: a read, which changes
\* nothing; what it returns is kept as the payload of the step.
FetchMessages(r) ==
    /\ sent' = << Emit("chat-history", r, {}, GetMessages(r)) >>
    /\ step' = Step("FetchMessages", Null, r, "none", FALSE)
    /\ UNCHANGED <<status, socketUid, uid, rooms, participants, keys, messages,
                   now, tasks, nEvents, joined, completed>>

\* The messages of every meeting: sockets connect and send, the sends are
\* stamped and stored as send-message does it, and the history is read.
NextHistory ==
    \/ \E c \in Conns : Connect(c)
    \/ \E c \in Conns, r \in Rooms, text \in Texts : SendMessage(c, r, text)
    \/ \E t \in Pending : SendProfile(t)
    \/ \E t \in Pending : SendPersist(t)
    \/ \E r \in Rooms : FetchMessages(r)

SpecHistory == Init /\ [][NextHistory]_vars

\* ------------------------------------------------------------------ properties

HandlerOps == {"JoinMeeting", "JoinHistory", "JoinProfile", "UpdateMediaState",
               "SendMessage", "SendProfile", "SendPersist",
               "Disconnect", "DisconnectProfile"}

\* The emits of the last step that carry event ev for meeting r
SentOf(ev, r) == {k \in DOMAIN sent : sent[k].ev = ev /\ sent[k].room = r}

\* The disconnect handler of c has run and nothing of c is in flight
Gone(c) ==
    /\ status[c] = "closed"
    /\ uid[c] # Null
    /\ \A t \in Pending : t.conn # c

\* C1: a meeting's list never holds two entries of one userId, and it holds
\* exactly one once a join of that userId has finished for the meeting and no
\* socket of that userId has disconnected.
C1_OneEntryPerUser ==
    \A r \in Rooms, u \in Users :
        /\ Count(ListOf(r), u) <= 1
        /\ ( /\ \E c \in Conns : uid[c] = u /\ r \in completed[c]
             /\ \A c \in Conns : uid[c] = u => status[c] # "closed" )
           => Count(ListOf(r), u) = 1

\* C1 witness: two sockets of one userId have both finished a join of the same
\* meeting, the second finding the entry of the first.
C1_Witness ==
    /\ step.op = "JoinProfile" /\ step.had
    /\ \E c \in Conns, d \in Conns :
         /\ c # d /\ uid[c] = uid[d]
         /\ status[c] = "connected" /\ status[d] = "connected"
         /\ step.room \in completed[c] \cap completed[d]
    /\ Count(ListOf(step.room), uid[step.conn]) = 1

\* C2 (as claimed): once the disconnect handler of a socket and every other
\* handler of that socket have finished, its userId is in the list of no
\* meeting the socket joined, unless another socket of that userId joined it.
C2_CleanupOnDisconnect ==
    \A c \in Conns :
        Gone(c) =>
            \A r \in joined[c] :
                (\A d \in Conns \ {c} : ~(uid[d] = uid[c] /\ r \in joined[d]))
                    => uid[c] \notin UserIds(ListOf(r))

\* C3 (as claimed): when all that happened is one socket joining a meeting and
\* disconnecting, the meeting's list is back to empty and the disconnect
\* emitted exactly one user-left for the meeting.
C3_JoinThenDisconnect ==
    \A c \in Conns :
        ( /\ Gone(c)
          /\ tasks = EmptyBag
          /\ nEvents = 2
          /\ \A d \in Conns \ {c} : status[d] = "new" )
        => \A r \in completed[c] :
             /\ ListOf(r) = << >>
             /\ step.op = "DisconnectProfile"
             /\ Cardinality(SentOf("user-left", r)) = 1

\* C4 (as claimed): every handler acts under the uid the middleware decoded
\* from the socket's token, and every listed userId is such a uid.
C4_ActsAsAuthenticatedUser ==
    /\ step.op \in HandlerOps => uid[step.conn] = socketUid[step.conn]
    /\ \A r \in DOMAIN participants :
         UserIds(participants[r]) \subseteq {socketUid[c] : c \in Conns}

\* C5 (as claimed): whatever the profile read and the add do, send-message
\* broadcasts new-message and no rejection leaves the handler.
C5_SendDegradesGracefully ==
    /\ step.op = "SendProfile" =>
         /\ step.err = "none"
         /\ Len(sent) = 1
         /\ sent[1].ev = "new-message"
    /\ step.op = "SendPersist" => step.err = "none"

\* C6 (as claimed): whatever the history read does, the joining socket is sent
\* chat-history and the join goes on to the registry step.
C6_JoinSurvivesHistoryFailure ==
    step.op = "JoinHistory" =>
        /\ Len(sent) = 1
        /\ sent[1].ev = "chat-history"
        /\ \E t \in Pending :
             /\ t.kind = "join" /\ t.pc = "profile"
             /\ t.conn = step.conn /\ t.meetingId = step.room

\* C7: the step of send-message that broadcasts new-message sends it to every
\* socket subscribed to the meeting, the sender included when subscribed, and
\* leaves the add outstanding; the step in which the add settles emits nothing.
C7_BroadcastBeforePersist ==
    /\ (step.op = "SendProfile" /\ step.err = "none") =>
         /\ Len(sent) = 1
         /\ sent[1].ev = "new-message"
         /\ sent[1].room = step.room
         /\ sent[1].to = {c \in Conns : status[c] = "connected"
                                         /\ step.room \in rooms[c]}
         /\ sent[1].payload.senderId = uid[step.conn]
         /\ \E t \in Pending :
              /\ t.kind = "send" /\ t.pc = "persist"
              /\ t.conn = step.conn /\ t.meetingId = step.room
    /\ step.op = "SendPersist" => sent = << >>

\* C7 witness: a message broadcast to two subscribed sockets, one the sender.
C7_Witness ==
    /\ step.op = "SendProfile" /\ step.err = "none"
    /\ step.conn \in sent[1].to
    /\ Cardinality(sent[1].to) = 2

\* C8: a roster is emitted in the step that changes who is listed in the
\* meeting, right after the user-joined or user-left of that change, and it
\* carries the list as that step leaves it.
C8_Step ==
    /\ \A k \in DOMAIN sent' :
         sent'[k].ev = "participants" =>
            /\ \A r \in Rooms :
                 sent'[k].room = r => sent'[k].payload = (ListOf(r))'
            /\ k > 1
            /\ sent'[k - 1].room = sent'[k].room
            /\ sent'[k - 1].ev \in {"user-joined", "user-left"}
    /\ \A r \in Rooms :
         (UserIds(ListOf(r)))' # UserIds(ListOf(r)) =>
            \E k \in DOMAIN sent' :
                sent'[k].ev = "participants" /\ sent'[k].room = r

C8_RosterMatchesRegistry == [][C8_Step]_vars

\* C8 witness: a disconnect has removed one user and sent the others the
\* roster of those who remain.
C8_Witness ==
    /\ step.op = "DisconnectProfile" /\ step.had
    /\ \E k \in DOMAIN sent :
         /\ sent[k].ev = "participants"
         /\ sent[k].payload # << >>
         /\ sent[k].to # {}

\* C9: the registry step of a join leaves the other entries as they were and
\* in their order, and puts the joiner's entry last, with the media state of
\* this join's payload and the name and photo of this join's profile read.
C9_Step ==
    \A r \in Rooms, c \in Conns :
      (step'.op = "JoinProfile" /\ step'.room = r /\ step'.conn = c) =>
        LET u == uid[c]
            old == ListOf(r)
            new == (ListOf(r))'
        IN \E t \in Pending :
             /\ t.kind = "join" /\ t.pc = "profile"
             /\ t.conn = c /\ t.meetingId = r
             /\ tasks' = Finish(t)
             /\ Len(new) = Len(WithoutUser(old, u)) + 1
             /\ SubSeq(new, 1, Len(new) - 1) = WithoutUser(old, u)
             /\ new[Len(new)].userId = u
             /\ new[Len(new)].isMuted = t.isMuted
             /\ new[Len(new)].isVideoOff = t.isVideoOff
             /\ new[Len(new)].photoURL \in
                  (IF t.photoURL # Null THEN {t.photoURL} ELSE {Null, DocPhoto})
             /\ new[Len(new)].userName \in {"User", DocName}

C9_LastJoinWins == [][C9_Step]_vars

\* C9 witness: a user already listed has joined again and is now listed last,
\* behind another user.
C9_Witness ==
    /\ step.op = "JoinProfile" /\ step.had
    /\ Len(ListOf(step.room)) = 2
    /\ ListOf(step.room)[2].userId = uid[step.conn]

\* C10: the registry step of a disconnect leaves every list without the userId
\* as it was and emits nothing for that meeting; for a meeting that listed the
\* userId it emits one user-left and one roster.
C10_Step ==
    \A c \in Conns :
      (step'.op = "DisconnectProfile" /\ step'.conn = c) =>
        \A r \in Rooms :
            IF uid[c] \in UserIds(ListOf(r))
            THEN /\ Cardinality({k \in DOMAIN sent' :
                        sent'[k].ev = "user-left" /\ sent'[k].room = r}) = 1
                 /\ Cardinality({k \in DOMAIN sent' :
                        sent'[k].ev = "participants" /\ sent'[k].room = r}) = 1
            ELSE /\ (ListOf(r))' = ListOf(r)
                 /\ \A k \in DOMAIN sent' : sent'[k].room # r

C10_SilentNoOpLeave == [][C10_Step]_vars

\* C10 witness: a disconnect has removed its user from one meeting and left
\* the non-empty list of another meeting alone, emitting nothing for it.
C10_Witness ==
    /\ step.op = "DisconnectProfile" /\ step.had
    /\ \E r \in Rooms :
         /\ ListOf(r) # << >>
         /\ \A k \in DOMAIN sent : sent[k].room # r

\* C11: the registry step of a join emits exactly one user-joined, for the
\* joined meeting and about the joiner, to every other socket subscribed to
\* the meeting and not to the joining socket.
C11_JoinedToOthersOnly ==
    step.op = "JoinProfile" =>
        /\ Cardinality(SentOf("user-joined", step.room)) = 1
        /\ \A k \in DOMAIN sent :
             sent[k].ev = "user-joined" =>
                /\ sent[k].room = step.room
                /\ sent[k].payload.userId = uid[step.conn]
                /\ step.conn \notin sent[k].to
                /\ sent[k].to = {d \in Conns \ {step.conn} :
                                    /\ status[d] = "connected"
                                    /\ step.room \in rooms[d]}

\* C11 witness: a join by a socket subscribed to the meeting has told another
\* subscribed socket.
C11_Witness ==
    /\ step.op = "JoinProfile"
    /\ status[step.conn] = "connected"
    /\ step.room \in rooms[step.conn]
    /\ \E k \in DOMAIN sent :
         sent[k].ev = "user-joined" /\ sent[k].to # {}

\* The join handlers of socket c for meeting r that wait for the profile
JoinsAtProfile(c, r) ==
    BagCardinality([t \in {x \in DOMAIN tasks :
                              /\ x.kind = "join" /\ x.pc = "profile"
                              /\ x.conn = c /\ x.meetingId = r} |-> tasks[t]])

\* C12: the registry step of a join emits the roster, as that step leaves it
\* and with the joiner's entry in it, to every socket subscribed to the
\* meeting, the joining socket included while it is open; that step ends a
\* handler that waited for the profile, and a join handler gets to wait for
\* the profile only in the step that sends chat-history to its socket alone.
C12_Step ==
    \A c \in Conns, r \in Rooms :
        /\ (step'.op = "JoinHistory" /\ step'.err = "none"
                /\ step'.conn = c /\ step'.room = r) =>
              /\ Len(sent') = 1
              /\ sent'[1].ev = "chat-history"
              /\ sent'[1].to = (IF status[c] = "connected" THEN {c} ELSE {})
              /\ (JoinsAtProfile(c, r))' = JoinsAtProfile(c, r) + 1
        /\ (JoinsAtProfile(c, r))' > JoinsAtProfile(c, r) =>
              (step'.op = "JoinHistory" /\ step'.err = "none"
                 /\ step'.conn = c /\ step'.room = r)
        /\ (step'.op = "JoinProfile" /\ step'.conn = c /\ step'.room = r) =>
              /\ (JoinsAtProfile(c, r))' = JoinsAtProfile(c, r) - 1
              /\ JoinsAtProfile(c, r) >= 1
              /\ \E k \in DOMAIN sent' :
                   /\ sent'[k].ev = "participants"
                   /\ sent'[k].room = r
                   /\ sent'[k].payload = (ListOf(r))'
                   /\ uid[c] \in UserIds(sent'[k].payload)
                   /\ sent'[k].to = {d \in Conns : status[d] = "connected"
                                                     /\ r \in rooms[d]}
                   /\ status[c] = "connected" => c \in sent'[k].to

C12_HistoryThenRoster == [][C12_Step]_vars

\* C12 witness: a join has sent the roster to two subscribed sockets, one of
\* them the joining socket.
C12_Witness ==
    /\ step.op = "JoinProfile"
    /\ \E k \in DOMAIN sent :
         /\ sent[k].ev = "participants"
         /\ step.conn \in sent[k].to
         /\ Cardinality(sent[k].to) = 2
         /\ Len(sent[k].payload) = 2

\* C13: an update-media-state for a meeting the registry does not hold, or
\* one that does not list the socket's userId, emits nothing, leaves the
\* registry and its keys as they were, leaves the socket open and ends
\* without an error.
C13_Step ==
    \A c \in Conns, r \in Rooms :
        ( /\ step'.op = "UpdateMediaState" /\ step'.conn = c /\ step'.room = r
          /\ (r \notin DOMAIN participants \/ uid[c] \notin UserIds(ListOf(r))) )
        => /\ sent' = << >>
           /\ participants' = participants
           /\ keys' = keys
           /\ step'.err = "none"
           /\ status' = status
           /\ tasks' = tasks

C14_Step ==
    \A c \in Conns, r \in Rooms :
        ( /\ step'.op = "UpdateMediaState" /\ step'.conn = c /\ step'.room = r
          /\ r \in DOMAIN participants /\ uid[c] \in UserIds(ListOf(r)) )
        => LET old == participants[r]
               new == participants'[r]
           IN /\ Len(sent') = 1
              /\ sent'[1].ev = "media-state-updated"
              /\ sent'[1].room = r
              /\ sent'[1].to = {d \in Conns : status[d] = "connected"
                                                /\ r \in rooms[d]}
              /\ DOMAIN sent'[1].payload = {"userId", "isMuted", "isVideoOff"}
              /\ sent'[1].payload.userId = uid[c]
              /\ DOMAIN participants' = DOMAIN participants
              /\ keys' = keys
              /\ \A x \in DOMAIN participants \ {r} :
                    participants'[x] = participants[x]
              /\ Len(new) = Len(old)
              /\ \A i \in 1..Len(old) :
                    IF old[i].userId = uid[c]
                    THEN new[i] = [old[i] EXCEPT
                                     !.isMuted = sent'[1].payload.isMuted,
                                     !.isVideoOff = sent'[1].payload.isVideoOff]
                    ELSE new[i] = old[i]

C14_MediaInPlace == [][C14_Step]_vars

\* C14 witness: the first of two listed users, with a name and a photo from
\* its profile, has changed its media state and both sockets were told.
C14_Witness ==
    /\ step.op = "UpdateMediaState" /\ step.had
    /\ Len(ListOf(step.room)) = 2
    /\ ListOf(step.room)[1].userId = uid[step.conn]
    /\ ListOf(step.room)[1].userName = DocName
    /\ ListOf(step.room)[1].isMuted # ListOf(step.room)[1].isVideoOff
    /\ Cardinality(sent[1].to) = 2

\* The userIds of a list, in its order
IdsOf(list) == [i \in 1..Len(list) |-> list[i].userId]

\* C15: on a meeting nobody has joined and with no message stored, for two
\* sockets a and b of different users: the history step of a's join, the
\* first event, sends a chat-history [] ; its registry step sends a the roster
\* [A]; the registry step of b's join, a listed and both open, sends a
\* user-joined {B} and then both the roster [A, B]; the registry step of a's
\* disconnect, the third event, sends b user-left {A} and then the roster [B],
\* and sends a nothing.
C15_Scenario ==
    \A a \in Conns, r \in Rooms :
      /\ (nEvents = 1 /\ step.conn = a /\ step.room = r /\ step.err = "none") =>
           /\ step.op = "JoinHistory" =>
                sent = << Emit("chat-history", r, {a}, << >>) >>
           /\ step.op = "JoinProfile" =>
                /\ Len(sent) = 2
                /\ sent[1].ev = "user-joined" /\ sent[1].to = {}
                /\ sent[2].ev = "participants" /\ sent[2].to = {a}
                /\ IdsOf(sent[2].payload) = << uid[a] >>
      /\ \A b \in Conns \ {a} :
           ( /\ uid[a] # Null /\ uid[b] # Null /\ uid[a] # uid[b]
             /\ joined[a] = {r} /\ joined[b] = {r}
             /\ r \in completed[a] /\ r \in completed[b]
             /\ status[b] = "connected" )
           => /\ ( /\ nEvents = 2 /\ status[a] = "connected"
                   /\ step.op = "JoinProfile" /\ step.conn = b ) =>
                     /\ Len(sent) = 2
                     /\ sent[1].ev = "user-joined" /\ sent[1].to = {a}
                     /\ sent[1].payload.userId = uid[b]
                     /\ sent[2].ev = "participants" /\ sent[2].to = {a, b}
                     /\ IdsOf(sent[2].payload) = << uid[a], uid[b] >>
              /\ ( /\ nEvents = 3 /\ status[a] = "closed"
                   /\ step.op = "DisconnectProfile" /\ step.conn = a ) =>
                     /\ Len(sent) = 2
                     /\ sent[1].ev = "user-left" /\ sent[1].to = {b}
                     /\ sent[1].room = r
                     /\ sent[1].payload.userId = uid[a]
                     /\ sent[2].ev = "participants" /\ sent[2].to = {b}
                     /\ sent[2].room = r
                     /\ IdsOf(sent[2].payload) = << uid[b] >>
                     /\ IdsOf(ListOf(r)) = << uid[b] >>

\* C15 witness: the end of the scenario: both have joined the meeting, then
\* the disconnect of the first has removed it and told the second.
C15_Witness ==
    \E a \in Conns, b \in Conns, r \in Rooms :
        /\ a # b /\ uid[a] # Null /\ uid[b] # Null /\ uid[a] # uid[b]
        /\ nEvents = 3 /\ tasks = EmptyBag
        /\ joined[a] = {r} /\ joined[b] = {r}
        /\ r \in completed[a] /\ r \in completed[b]
        /\ status[a] = "closed" /\ status[b] = "connected"
        /\ step.op = "DisconnectProfile" /\ step.conn = a
        /\ Len(sent) = 2 /\ sent[2].to = {b}

\* C16: when the profile read of a join is rejected or finds no user record,
\* the registry step still runs to its end: it lists the joiner, last, under
\* the name "User" and with the photoURL of the payload, or null when the
\* payload has none, and tells the room that name.
C16_Step ==
    \A c \in Conns, r \in Rooms :
        ( /\ step'.op = "JoinProfile" /\ step'.conn = c /\ step'.room = r
          /\ step'.profile \in {"error", "missing"} )
        => \E t \in Pending :
             /\ t.kind = "join" /\ t.pc = "profile"
             /\ t.conn = c /\ t.meetingId = r
             /\ tasks' = Finish(t)
             /\ step'.err = "none"
             /\ r \in completed'[c]
             /\ LET new == (ListOf(r))'
                IN /\ new # << >>
                   /\ new[Len(new)].userId = uid[c]
                   /\ new[Len(new)].userName = "User"
                   /\ new[Len(new)].photoURL = t.photoURL
                   /\ t.photoURL \in {ClientPhoto, Null}
                   /\ \E k \in DOMAIN sent' :
                        /\ sent'[k].ev = "user-joined"
                        /\ sent'[k].payload.userName = "User"
                   /\ \E k \in DOMAIN sent' :
                        /\ sent'[k].ev = "participants"
                        /\ sent'[k].payload = new

C16_ProfileDefaults == [][C16_Step]_vars

\* C16 witness: a join whose profile read was rejected has listed the user as
\* "User" with the photo its payload gave.
C16_Witness ==
    /\ step.op = "JoinProfile" /\ step.profile = "error"
    /\ \E i \in 1..Len(ListOf(step.room)) :
         /\ ListOf(step.room)[i].userId = uid[step.conn]
         /\ ListOf(step.room)[i].userName = "User"
         /\ ListOf(step.room)[i].photoURL = ClientPhoto

\* A socket turned away: by the middleware, or by the uid test of the
\* connection handler before any handler was registered
TurnedAway(c) ==
    status[c] = "rejected" \/ (status[c] = "closed" /\ uid[c] = Null)

\* C17: a handshake without a token, with a token that fails verification, or
\* with a missing or invalid uid leaves the socket turned away, and the step
\* that turns it away emits nothing and leaves the registry alone; a socket
\* turned away stays so, is subscribed to no meeting, has joined none, has no
\* handler in flight and takes no further step.
C17_Step ==
    \A c \in Conns :
         /\ ( /\ step'.op = "Connect" /\ step'.conn = c
              /\ (step'.token \in {"none", "bad"}
                    \/ step'.query \in {"", "undefined", "null"}) )
            => /\ (TurnedAway(c))'
               /\ status'[c] # "connected"
               /\ sent' = << >>
               /\ participants' = participants
               /\ tasks' = tasks
         /\ TurnedAway(c) => /\ (TurnedAway(c))'
                             /\ step'.conn # c
         /\ (TurnedAway(c))' =>
              /\ rooms'[c] = {} /\ joined'[c] = {} /\ completed'[c] = {}
              /\ \A t \in DOMAIN tasks' : t.conn # c
              /\ step'.conn = c => step'.op = "Connect"

C17_RejectedBeforeConnected == [][C17_Step]_vars

\* C17 witness: one socket was turned away by the middleware, and the other
\* has since joined a meeting and is listed.
C17_Witness ==
    /\ \E c \in Conns : status[c] = "rejected"
    /\ \E d \in Conns, r \in Rooms :
         /\ status[d] = "connected"
         /\ r \in completed[d]
         /\ uid[d] \in UserIds(ListOf(r))
    /\ step.op # "Connect"

\* C18: whatever the reads of one socket do, never settling included, the
\* handlers of the other sockets all run to their end; and every step that
\* changes a list is the whole of a registry operation: a join's step removes
\* the joiner's entry and appends the new one at once, so no state between
\* two steps has a list with the joiner taken out and not yet put back, or
\* with two entries of one user.
C18_Step ==
    \A r \in Rooms :
        /\ \A u \in Users : (Count(ListOf(r), u))' <= 1
        /\ (ListOf(r))' # ListOf(r) =>
              /\ step'.op \in {"JoinProfile", "UpdateMediaState", "DisconnectProfile"}
              /\ step'.op = "JoinProfile" => step'.room = r
        /\ \A c \in Conns :
              (step'.op = "JoinProfile" /\ step'.conn = c /\ step'.room = r) =>
                  /\ Len((ListOf(r))') = Len(WithoutUser(ListOf(r), uid[c])) + 1
                  /\ SubSeq((ListOf(r))', 1, Len((ListOf(r))') - 1)
                        = WithoutUser(ListOf(r), uid[c])
                  /\ (ListOf(r))'[Len((ListOf(r))')].userId = uid[c]

C18_StallsOnlyCaller ==
    /\ <>[](\A t \in Pending : t.conn = Stalled)
    /\ [][C18_Step]_vars

\* C18 witness: while a join of the stalled socket waits for its history, the
\* other socket has joined the same meeting and its disconnect has run to the
\* end.
C18_Witness ==
    /\ \E s \in Pending :
         /\ s.conn = Stalled /\ s.kind = "join" /\ s.pc = "history"
         /\ \E d \in Conns \ {Stalled} : s.meetingId \in completed[d]
    /\ step.op = "DisconnectProfile" /\ step.conn # Stalled
    /\ \A t \in Pending : t.conn = Stalled

\* C19: a join-meeting whose payload is a bare meeting id, or an object
\* without isMuted (isVideoOff), starts a handler that holds isMuted = true
\* (isVideoOff = true), and one whose payload gives the field holds the value
\* given, false included; the registry step of the handler stores what the
\* handler holds in the entry it appends.
C19_Step ==
    /\ \A c \in Conns, data \in JoinPayloads :
         JoinMeeting(c, data) =>
            \E t \in DOMAIN tasks' :
                /\ tasks' = Start(t)
                /\ t.kind = "join" /\ t.pc = "history"
                /\ t.conn = c /\ t.meetingId = data.meetingId
                /\ t.isMuted = (IF data.type = "string" \/ "isMuted" \notin data.given
                                THEN TRUE ELSE data.isMuted)
                /\ t.isVideoOff = (IF data.type = "string"
                                      \/ "isVideoOff" \notin data.given
                                   THEN TRUE ELSE data.isVideoOff)
    /\ \A t \in Pending, r \in Rooms :
         (JoinProfile(t) /\ t.meetingId = r) =>
            /\ (ListOf(r))' # << >>
            /\ (ListOf(r))'[Len((ListOf(r))')].userId = uid[t.conn]
            /\ (ListOf(r))'[Len((ListOf(r))')].isMuted = t.isMuted
            /\ (ListOf(r))'[Len((ListOf(r))')].isVideoOff = t.isVideoOff

C19_MediaDefaults == [][C19_Step]_vars

\* C19 witness: after two joins and nothing else, a meeting lists one user
\* with the defaults (muted, camera off) and one with the false values its
\* payload gave.
C19_Witness ==
    /\ step.op = "JoinProfile" /\ nEvents = 2
    /\ Len(ListOf(step.room)) = 2
    /\ \E i, j \in 1..2 :
         /\ ListOf(step.room)[i].isMuted /\ ListOf(step.room)[i].isVideoOff
         /\ ~ListOf(step.room)[j].isMuted /\ ~ListOf(step.room)[j].isVideoOff

\* The times of the messages appended so far: stored, or handed to the DAO
AppendedTimes ==
    {d.time : d \in UNION {messages[r] : r \in Rooms}}
    \cup {t.time : t \in {x \in Pending : x.kind = "send" /\ x.pc = "persist"}}

\* C20: a read of a meeting's history returns the documents stored for that
\* meeting, each once and none of another meeting, in non-decreasing time;
\* every message is handed to the DAO with a time no earlier than that of any
\* message handed over before, and is stored with that time in its own
\* meeting only. So messages of distinct times are read back in the order in
\* which they were appended.
C20_Step ==
    /\ \A r \in Rooms :
         (step'.op \in {"FetchMessages", "JoinHistory"} /\ step'.err = "none"
             /\ step'.room = r) =>
            LET h == sent'[1].payload
            IN /\ Len(h) = Cardinality(messages[r])
               /\ {h[i] : i \in 1..Len(h)} = messages[r]
               /\ \A i \in 1..Len(h) : h[i].meetingId = r
               /\ \A i \in 1..Len(h), j \in 1..Len(h) :
                     i < j => h[i].time <= h[j].time
               /\ messages' = messages
    /\ \A t \in Pending :
         (SendProfile(t) /\ step'.err = "none") =>
            /\ \A x \in AppendedTimes : x <= now'
            /\ \E t2 \in DOMAIN tasks' :
                 /\ tasks' = Move(t, t2)
                 /\ t2.pc = "persist" /\ t2.time = now'
                 /\ t2.meetingId = t.meetingId /\ t2.message = t.message
    /\ \A t \in Pending :
         (SendPersist(t) /\ step'.err = "none") =>
            /\ \A r \in Rooms \ {t.meetingId} : messages'[r] = messages[r]
            /\ \E d \in messages'[t.meetingId] :
                 /\ d \notin messages[t.meetingId]
                 /\ messages'[t.meetingId] = messages[t.meetingId] \cup {d}
                 /\ d.time = t.time /\ d.message = t.message
                 /\ d.meetingId = t.meetingId

C20_HistoryRoundTrip == [][C20_Step]_vars

\* C20 witness: a read has returned two messages of one meeting with distinct
\* times, the earlier under the greater document name, while the other
\* meeting holds a message too.
C20_Witness ==
    /\ step.op = "FetchMessages"
    /\ Len(sent[1].payload) = 2
    /\ sent[1].payload[1].time < sent[1].payload[2].time
    /\ sent[1].payload[1].id > sent[1].payload[2].id
    /\ \E r \in Rooms \ {step.room} : messages[r] # {}

\* C21 (as claimed): when no handler is in flight, every userId with an open
\* socket whose join of a meeting has finished is listed in that meeting.
C21_LiveUsersListed ==
    tasks = EmptyBag =>
        \A c \in Conns, r \in Rooms :
            (status[c] = "connected" /\ r \in completed[c])
                => uid[c] \in UserIds(ListOf(r))

\* C23 (as claimed): an update-media-state changes an entry of a meeting, and
\* is broadcast to it, only when its socket has sent join-meeting for that
\* meeting.
C23_MediaOnlyWhenJoined ==
    (step.op = "UpdateMediaState" /\ step.had)
        => step.room \in joined[step.conn]

\* C22 (as claimed): when the history of a join is sent to its open socket,
\* every message of the meeting that a send-message handler still in flight
\* has broadcast, and that is therefore not yet in the history, has reached
\* that socket live.
C22_Step ==
    \A c \in Conns, r \in Rooms :
        ( /\ step'.op = "JoinHistory" /\ step'.err = "none"
          /\ step'.conn = c /\ step'.room = r
          /\ status[c] = "connected" )
        => \A t \in Pending :
             (t.kind = "send" /\ t.pc = "persist" /\ t.meetingId = r)
                => c \in t.heard

C22_NoMessageGap == [][C22_Step]_vars

====
